---------------------------- MODULE Spec2Model ----------------------------
(***************************************************************************)
(* Model of the ray construction and ray intersection routines of          *)
(* hwoa-rang-math (src/unnamed/part_000).                                  *)
(*                                                                         *)
(* Numbers.  A JavaScript number is modelled as an exact rational extended *)
(* with the IEEE-754 special values the code's control flow depends on:    *)
(* signed zero, +Infinity, -Infinity and NaN.  A number is a record        *)
(*     [sg |-> 1 or -1, num |-> Nat, den |-> Nat]                          *)
(* in lowest terms: den > 0 is the finite value sg*num/den (num = 0 is +0  *)
(* or -0), num = 1 and den = 0 is sg*Infinity, num = den = 0 is NaN.       *)
(* Rounding and overflow of finite values are not modelled.                *)
(***************************************************************************)
EXTENDS Integers, Sequences, FiniteSets, TLC

VARIABLES fn, args, pc, result

vars == <<fn, args, pc, result>>

-----------------------------------------------------------------------------
(* IEEE-754 arithmetic on extended rationals *)

Abs(i) == IF i < 0 THEN -i ELSE i

RECURSIVE GCD(_, _)
GCD(a, b) == IF b = 0 THEN a ELSE GCD(b, a % b)

NaN == [sg |-> 1, num |-> 0, den |-> 0]
PosInf == [sg |-> 1, num |-> 1, den |-> 0]
NegInf == [sg |-> -1, num |-> 1, den |-> 0]
PosZero == [sg |-> 1, num |-> 0, den |-> 1]
NegZero == [sg |-> -1, num |-> 0, den |-> 1]

\* the number sg*n/d in lowest terms (n, d >= 0)
Norm(sg, n, d) ==
    IF d = 0 THEN (IF n = 0 THEN NaN ELSE [sg |-> sg, num |-> 1, den |-> 0])
    ELSE IF n = 0 THEN [sg |-> sg, num |-> 0, den |-> 1]
    ELSE LET g == GCD(n, d) IN [sg |-> sg, num |-> n \div g, den |-> d \div g]

\* the number literal p/q (q > 0)
Rat(p, q) == Norm(IF p < 0 THEN -1 ELSE 1, Abs(p), q)
Num(i) == Rat(i, 1)

IsNaN(a) == a.num = 0 /\ a.den = 0
IsInf(a) == a.num # 0 /\ a.den = 0
IsFinite(a) == a.den # 0
IsZero(a) == a.num = 0 /\ a.den # 0

Neg(a) == IF IsNaN(a) THEN NaN ELSE [a EXCEPT !.sg = -a.sg]

\* a * b
Mul(a, b) ==
    IF a.num = 0 \/ b.num = 0 \/ a.den = 0 \/ b.den = 0
    THEN Norm(a.sg * b.sg, a.num * b.num, a.den * b.den)
    ELSE LET g == GCD(a.num, b.den)
             h == GCD(b.num, a.den)
         IN  [sg |-> a.sg * b.sg, num |-> (a.num \div g) * (b.num \div h),
              den |-> (a.den \div h) * (b.den \div g)]

\* 1 / a
Inv(a) == Norm(a.sg, a.den, a.num)

\* a / b
Div(a, b) == Mul(a, Inv(b))

\* a + b
Add(a, b) ==
    IF IsNaN(a) \/ IsNaN(b) THEN NaN
    ELSE IF IsInf(a) THEN (IF IsInf(b) /\ b.sg # a.sg THEN NaN ELSE a)
    ELSE IF IsInf(b) THEN b
    ELSE LET g == GCD(a.den, b.den)
             v == a.sg * a.num * (b.den \div g) + b.sg * b.num * (a.den \div g)
         IN  IF v = 0
             THEN (IF a.num = 0 /\ b.num = 0 /\ a.sg = -1 /\ b.sg = -1
                   THEN NegZero ELSE PosZero)
             ELSE Norm(IF v < 0 THEN -1 ELSE 1, Abs(v), (a.den \div g) * b.den)

\* a - b
Sub(a, b) == Add(a, Neg(b))

\* a < b
Lt(a, b) ==
    /\ ~IsNaN(a)
    /\ ~IsNaN(b)
    /\ IF IsInf(a) THEN a.sg = -1 /\ b # a
       ELSE IF IsInf(b) THEN b.sg = 1
       ELSE LET g == GCD(a.den, b.den)
            IN  a.sg * a.num * (b.den \div g) < b.sg * b.num * (a.den \div g)

\* a > b, a <= b, a >= b
Gt(a, b) == Lt(b, a)
Le(a, b) == ~IsNaN(a) /\ ~IsNaN(b) /\ ~Lt(b, a)
Ge(a, b) == Le(b, a)

\* a === b on numbers (NaN differs from itself, +0 equals -0)
NumEq(a, b) == Le(a, b) /\ Le(b, a)

\* Math.max(a, b)
MathMax(a, b) ==
    IF IsNaN(a) \/ IsNaN(b) THEN NaN
    ELSE IF Lt(a, b) THEN b
    ELSE IF Lt(b, a) THEN a
    ELSE IF IsZero(a) /\ b.sg = 1 THEN b
    ELSE a

\* Math.min(a, b)
MathMin(a, b) ==
    IF IsNaN(a) \/ IsNaN(b) THEN NaN
    ELSE IF Lt(a, b) THEN a
    ELSE IF Lt(b, a) THEN b
    ELSE IF IsZero(a) /\ b.sg = -1 THEN b
    ELSE a

-----------------------------------------------------------------------------
(* gl-matrix vec3 *)

IVec(x, y, z) == <<Num(x), Num(y), Num(z)>>

\* vec3.sub(out, a, b)
VSub(a, b) == <<Sub(a[1], b[1]), Sub(a[2], b[2]), Sub(a[3], b[3])>>

\* vec3.add(out, a, b)
VAdd(a, b) == <<Add(a[1], b[1]), Add(a[2], b[2]), Add(a[3], b[3])>>

\* vec3.scale(out, a, s)
VScale(a, s) == <<Mul(a[1], s), Mul(a[2], s), Mul(a[3], s)>>

\* vec3.dot(a, b)
Dot(a, b) == Add(Add(Mul(a[1], b[1]), Mul(a[2], b[2])), Mul(a[3], b[3]))

\* vec3.cross(out, a, b)
Cross(a, b) ==
    <<Sub(Mul(a[2], b[3]), Mul(a[3], b[2])),
      Sub(Mul(a[3], b[1]), Mul(a[1], b[3])),
      Sub(Mul(a[1], b[2]), Mul(a[2], b[1]))>>

-----------------------------------------------------------------------------
(* gl-matrix mat4 and vec4: a mat4 is the tuple of its 16 numbers, column   *)
(* after column                                                             *)

Mat4(m) == [i \in 1 .. 16 |-> Num(m[i])]

\* mat4.create()
Mat4Identity == Mat4(<<1, 0, 0, 0, 0, 1, 0, 0, 0, 0, 1, 0, 0, 0, 0, 1>>)

Add3(a, b, c) == Add(Add(a, b), c)
Add4(a, b, c, d) == Add(Add(Add(a, b), c), d)
Det2(a, b, c, d) == Sub(Mul(a, b), Mul(c, d))

\* the determinant mat4.invert computes
Mat4Det(a) ==
    LET b00 == Det2(a[1], a[6], a[2], a[5])
        b01 == Det2(a[1], a[7], a[3], a[5])
        b02 == Det2(a[1], a[8], a[4], a[5])
        b03 == Det2(a[2], a[7], a[3], a[6])
        b04 == Det2(a[2], a[8], a[4], a[6])
        b05 == Det2(a[3], a[8], a[4], a[7])
        b06 == Det2(a[9], a[14], a[10], a[13])
        b07 == Det2(a[9], a[15], a[11], a[13])
        b08 == Det2(a[9], a[16], a[12], a[13])
        b09 == Det2(a[10], a[15], a[11], a[14])
        b10 == Det2(a[10], a[16], a[12], a[14])
        b11 == Det2(a[11], a[16], a[12], a[15])
    IN  Add(Sub(Add(Add(Sub(Mul(b00, b11), Mul(b01, b10)), Mul(b02, b09)),
                    Mul(b03, b08)), Mul(b04, b07)), Mul(b05, b06))

\* mat4.invert(out, a): the contents of out afterwards (out is left as it
\* was when the determinant is 0 or NaN)
Mat4Invert(out, a) ==
    LET b00 == Det2(a[1], a[6], a[2], a[5])
        b01 == Det2(a[1], a[7], a[3], a[5])
        b02 == Det2(a[1], a[8], a[4], a[5])
        b03 == Det2(a[2], a[7], a[3], a[6])
        b04 == Det2(a[2], a[8], a[4], a[6])
        b05 == Det2(a[3], a[8], a[4], a[7])
        b06 == Det2(a[9], a[14], a[10], a[13])
        b07 == Det2(a[9], a[15], a[11], a[13])
        b08 == Det2(a[9], a[16], a[12], a[13])
        b09 == Det2(a[10], a[15], a[11], a[14])
        b10 == Det2(a[10], a[16], a[12], a[14])
        b11 == Det2(a[11], a[16], a[12], a[15])
        det0 == Mat4Det(a)
        det == Inv(det0)
        \* (x*p - y*q + z*r) * det
        C(x, p, y, q, z, r) == Mul(Add(Sub(Mul(x, p), Mul(y, q)), Mul(z, r)), det)
        \* (x*p - y*q - z*r) * det
        D(x, p, y, q, z, r) == Mul(Sub(Sub(Mul(x, p), Mul(y, q)), Mul(z, r)), det)
    IN  IF IsZero(det0) \/ IsNaN(det0) THEN out
        ELSE <<C(a[6], b11, a[7], b10, a[8], b09),
               D(a[3], b10, a[2], b11, a[4], b09),
               C(a[14], b05, a[15], b04, a[16], b03),
               D(a[11], b04, a[10], b05, a[12], b03),
               D(a[7], b08, a[5], b11, a[8], b07),
               C(a[1], b11, a[3], b08, a[4], b07),
               D(a[15], b02, a[13], b05, a[16], b01),
               C(a[9], b05, a[11], b02, a[12], b01),
               C(a[5], b10, a[6], b08, a[8], b06),
               D(a[2], b08, a[1], b10, a[4], b06),
               C(a[13], b04, a[14], b02, a[16], b00),
               D(a[10], b02, a[9], b04, a[12], b00),
               D(a[6], b07, a[5], b09, a[7], b06),
               C(a[1], b09, a[2], b07, a[3], b06),
               D(a[14], b01, a[13], b03, a[15], b00),
               C(a[9], b03, a[10], b01, a[11], b00)>>

\* vec4.transformMat4(out, a, m)
Vec4TransformMat4(a, m) ==
    <<Add4(Mul(m[1], a[1]), Mul(m[5], a[2]), Mul(m[9], a[3]), Mul(m[13], a[4])),
      Add4(Mul(m[2], a[1]), Mul(m[6], a[2]), Mul(m[10], a[3]), Mul(m[14], a[4])),
      Add4(Mul(m[3], a[1]), Mul(m[7], a[2]), Mul(m[11], a[3]), Mul(m[15], a[4])),
      Add4(Mul(m[4], a[1]), Mul(m[8], a[2]), Mul(m[12], a[3]), Mul(m[16], a[4]))>>

-----------------------------------------------------------------------------
(* Numbers with a square root.  vec3.normalize divides by Math.sqrt(len),   *)
(* which is irrational for most inputs; the numbers computed from its       *)
(* result are kept exactly as rat + coef * sqrt(rad), rad > 0 the one       *)
(* radicand of the call.                                                    *)

Surd(r) == [rat |-> r, coef |-> PosZero, rad |-> Num(1)]
SurdVec(a) == <<Surd(a[1]), Surd(a[2]), Surd(a[3])>>

\* a * s for a number s
SMul(a, s) == [rat |-> Mul(a.rat, s), coef |-> Mul(a.coef, s), rad |-> a.rad]

SRad(a, b) == IF IsZero(a.coef) THEN b.rad ELSE a.rad

\* a + b and a - b (of the same radicand, or one of them rational)
SAdd(a, b) == [rat |-> Add(a.rat, b.rat), coef |-> Add(a.coef, b.coef), rad |-> SRad(a, b)]
SSub(a, b) == [rat |-> Sub(a.rat, b.rat), coef |-> Sub(a.coef, b.coef), rad |-> SRad(a, b)]

SVScale(a, s) == <<SMul(a[1], s), SMul(a[2], s), SMul(a[3], s)>>
SVAdd(a, b) == <<SAdd(a[1], b[1]), SAdd(a[2], b[2]), SAdd(a[3], b[3])>>
SVSub(a, b) == <<SSub(a[1], b[1]), SSub(a[2], b[2]), SSub(a[3], b[3])>>

\* vec3.normalize(out, a): a[i] * (1 / Math.sqrt(len)) = (a[i] / len) * sqrt(len)
\* when len > 0, and a[i] * len otherwise
Vec3Normalize(a) ==
    LET len == Add3(Mul(a[1], a[1]), Mul(a[2], a[2]), Mul(a[3], a[3]))
        Scaled(x) == IF Gt(len, PosZero) /\ IsFinite(len)
                     THEN [rat |-> PosZero, coef |-> Div(x, len), rad |-> len]
                     ELSE IF IsInf(len) THEN Surd(Mul(x, PosZero))
                     ELSE Surd(Mul(x, len))
    IN  <<Scaled(a[1]), Scaled(a[2]), Scaled(a[3])>>

-----------------------------------------------------------------------------
(* projectMouseToWorldSpace *)

\* a const of the source: the value of the one expression in S, computed once
Const(S) == CHOOSE v \in S : TRUE

\* the world-space direction before it is normalized
MouseWorldDirection(normMouseCoords, camera) ==
    Const({<<vec4World[1], vec4World[2], vec4World[3]>> :
        vec4World \in
            {Vec4TransformMat4(<<vec4Eye[1], vec4Eye[2], Num(-1), Num(0)>>,
                               camera.viewMatrixInverse) :
                vec4Eye \in
                    {Vec4TransformMat4(<<normMouseCoords[1], normMouseCoords[2],
                                         Num(-1), Num(1)>>, matInvProjection) :
                        matInvProjection \in
                            {Mat4Invert(Mat4Identity, camera.projectionMatrix)}}}})

\* the ray normalized: vec3.normalize of the world-space direction
MouseRay(normMouseCoords, camera) ==
    Const({Vec3Normalize(ray) : ray \in {MouseWorldDirection(normMouseCoords, camera)}})

\* mutant: the unit ray returned as the direction
projectMouseToWorldSpace_UnitDirection(normMouseCoords, camera, rayScale) ==
    Const({[rayStart |-> SurdVec(camera.position),
            rayEnd |-> SVAdd(SurdVec(camera.position), SVScale(ray, rayScale)),
            rayDirection |-> ray] :
        ray \in {MouseRay(normMouseCoords, camera)}})

projectMouseToWorldSpace(normMouseCoords, camera, rayScale) ==
    Const({[rayStart |-> rayStart, rayEnd |-> rayEnd,
            rayDirection |-> SVSub(rayEnd, rayStart)] :
        rayEnd \in {SVAdd(SurdVec(camera.position), rayMul) :
                       rayMul \in {SVScale(ray, rayScale) :
                                      ray \in {MouseRay(normMouseCoords, camera)}}},
        rayStart \in {SurdVec(camera.position)}})

-----------------------------------------------------------------------------
(* Results: null is the empty tuple, [time, point] is <<time, point>>,      *)
(* and a bare time is <<time>>.                                             *)

Null == <<>>

-----------------------------------------------------------------------------
(* intersectRayWithPlane *)

\* mutant: the delta taken from the plane to the ray start
intersectRayWithPlane_DeltaReversed(rayStart, rayDirection, planePos, planeNormal) ==
    LET rayToPlaneDelta == VSub(rayStart, planePos)
        wp == Dot(rayToPlaneDelta, planeNormal)
        vp == Dot(rayDirection, planeNormal)
        time == Div(wp, vp)
    IN  IF Ge(time, PosZero)
        THEN <<time, VAdd(VScale(rayDirection, time), rayStart)>>
        ELSE Null

intersectRayWithPlane(rayStart, rayDirection, planePos, planeNormal) ==
    LET rayToPlaneDelta == VSub(planePos, rayStart)
        wp == Dot(rayToPlaneDelta, planeNormal)
        vp == Dot(rayDirection, planeNormal)
        time == Div(wp, vp)
    IN  IF Ge(time, PosZero)
        THEN <<time, VAdd(VScale(rayDirection, time), rayStart)>>
        ELSE Null

-----------------------------------------------------------------------------
(* intersectRayWithTriangle *)

\* mutant: the edge's end vertex taken one too far
TriangleEdgeOutside_WrongWrap(planeNormal, intersectPoint, verticesArr, i) ==
    LET ii == ((i + 1) % 3) + 1
        edge == VSub(verticesArr[ii], verticesArr[i])
        intersectPointLength == VSub(intersectPoint, verticesArr[i])
        crossProductEdgeIntersectPointLength == Cross(edge, intersectPointLength)
    IN  Lt(Dot(planeNormal, crossProductEdgeIntersectPointLength), PosZero)

\* the edge test of iteration i (1-based): the cross-dot of edge i is negative
TriangleEdgeOutside(planeNormal, intersectPoint, verticesArr, i) ==
    LET ii == (i % 3) + 1
        edge == VSub(verticesArr[ii], verticesArr[i])
        intersectPointLength == VSub(intersectPoint, verticesArr[i])
        crossProductEdgeIntersectPointLength == Cross(edge, intersectPointLength)
    IN  Lt(Dot(planeNormal, crossProductEdgeIntersectPointLength), PosZero)

\* cross(v1 - v0, v2 - v0)
TrianglePlaneNormal(verticesArr) ==
    LET edge0 == VSub(verticesArr[2], verticesArr[1])
        edge2 == VSub(verticesArr[3], verticesArr[1])
    IN  Cross(edge0, edge2)

intersectRayWithTriangle(rayStart, rayDirection, verticesArr) ==
    LET planeNormal == TrianglePlaneNormal(verticesArr)
        interesction == intersectRayWithPlane(rayStart, rayDirection,
                                              verticesArr[1], planeNormal)
    IN  IF interesction = Null THEN Null
        ELSE IF \E i \in 1 .. 3 :
                    TriangleEdgeOutside(planeNormal, interesction[2], verticesArr, i)
             THEN Null
             ELSE interesction

-----------------------------------------------------------------------------
(* intersectRayWithQuad *)

\* cross(v2 - v1, v0 - v1)
QuadPlaneNormal(verticesArr) ==
    LET edge0 == VSub(verticesArr[1], verticesArr[2])
        edge1 == VSub(verticesArr[3], verticesArr[2])
    IN  Cross(edge1, edge0)

\* mutant: the boundary rejected, t <= 0 || t >= 1
QuadParamOutside_Strict(intersectPoint, from, to) ==
    LET edge == VSub(to, from)
        plen == VSub(intersectPoint, from)
        t == Div(Dot(plen, edge), Dot(edge, edge))
    IN  Le(t, PosZero) \/ Ge(t, Num(1))

\* t < 0 || t > 1 for t = dot(point - from, to - from) / dot(to - from, to - from)
QuadParamOutside(intersectPoint, from, to) ==
    LET edge == VSub(to, from)
        plen == VSub(intersectPoint, from)
        t == Div(Dot(plen, edge), Dot(edge, edge))
    IN  Lt(t, PosZero) \/ Gt(t, Num(1))

\* the ray's hit with the plane of vertices 0, 1, 2 through vertex 0
QuadPlaneHit(rayStart, rayDirection, verticesArr) ==
    intersectRayWithPlane(rayStart, rayDirection, verticesArr[1],
                          QuadPlaneNormal(verticesArr))

\* the first parametric test rejects: edge v1 - v0, point relative to v0
QuadFirstOutside(intersectPoint, verticesArr) ==
    QuadParamOutside(intersectPoint, verticesArr[1], verticesArr[2])

\* mutant: the second parametric test on the fourth vertex's edge v3 - v0
QuadSecondOutside_FourthVertex(intersectPoint, verticesArr) ==
    QuadParamOutside(intersectPoint, verticesArr[1], verticesArr[4])

\* the second parametric test rejects: edge v2 - v1, point relative to v1
QuadSecondOutside(intersectPoint, verticesArr) ==
    QuadParamOutside(intersectPoint, verticesArr[2], verticesArr[3])

\* mutant: the second parametric test left out
intersectRayWithQuad_OneTest(rayStart, rayDirection, verticesArr) ==
    LET intersection == QuadPlaneHit(rayStart, rayDirection, verticesArr)
    IN  IF intersection = Null THEN Null
        ELSE IF QuadFirstOutside(intersection[2], verticesArr) THEN Null
        ELSE intersection

intersectRayWithQuad(rayStart, rayDirection, verticesArr) ==
    LET intersection == QuadPlaneHit(rayStart, rayDirection, verticesArr)
    IN  IF intersection = Null THEN Null
        ELSE IF QuadFirstOutside(intersection[2], verticesArr) THEN Null
        ELSE IF QuadSecondOutside(intersection[2], verticesArr) THEN Null
        ELSE intersection

-----------------------------------------------------------------------------
(* intersectRayWithAABB *)

\* mutant: the z slab left out of the entry time
AABBtmin_NoZ(origin, direction, box) ==
    LET tMinX == Div(Sub(box.min[1], origin[1]), direction[1])
        tMaxX == Div(Sub(box.max[1], origin[1]), direction[1])
        tMinY == Div(Sub(box.min[2], origin[2]), direction[2])
        tMaxY == Div(Sub(box.max[2], origin[2]), direction[2])
    IN  MathMax(MathMin(tMinX, tMaxX), MathMin(tMinY, tMaxY))

AABBtmin(origin, direction, box) ==
    LET tMinX == Div(Sub(box.min[1], origin[1]), direction[1])
        tMaxX == Div(Sub(box.max[1], origin[1]), direction[1])
        tMinY == Div(Sub(box.min[2], origin[2]), direction[2])
        tMaxY == Div(Sub(box.max[2], origin[2]), direction[2])
        tMinZ == Div(Sub(box.min[3], origin[3]), direction[3])
        tMaxZ == Div(Sub(box.max[3], origin[3]), direction[3])
    IN  MathMax(MathMax(MathMin(tMinX, tMaxX), MathMin(tMinY, tMaxY)),
                MathMin(tMinZ, tMaxZ))

AABBtmax(origin, direction, box) ==
    LET tMinX == Div(Sub(box.min[1], origin[1]), direction[1])
        tMaxX == Div(Sub(box.max[1], origin[1]), direction[1])
        tMinY == Div(Sub(box.min[2], origin[2]), direction[2])
        tMaxY == Div(Sub(box.max[2], origin[2]), direction[2])
        tMinZ == Div(Sub(box.min[3], origin[3]), direction[3])
        tMaxZ == Div(Sub(box.max[3], origin[3]), direction[3])
    IN  MathMin(MathMin(MathMax(tMinX, tMaxX), MathMax(tMinY, tMaxY)),
                MathMax(tMinZ, tMaxZ))

intersectRayWithAABB(origin, direction, box) ==
    LET tmin == AABBtmin(origin, direction, box)
        tmax == AABBtmax(origin, direction, box)
    IN  IF Lt(tmax, PosZero) THEN Null
        ELSE IF Gt(tmin, tmax) THEN Null
        ELSE <<tmin>>

-----------------------------------------------------------------------------
(* Inputs *)

MaxCoord == 1

Coords == -MaxCoord .. MaxCoord
Grid == {IVec(x, y, z) : x \in Coords, y \in Coords, z \in Coords}

\* ray directions: every sign pattern, and some of unequal components
Directions ==
    {IVec(x, y, z) : x \in -1 .. 1, y \in -1 .. 1, z \in -1 .. 1}
    \cup {IVec(2, 1, 0), IVec(-1, 2, 2), IVec(1, -2, 1), IVec(0, 0, 2),
          IVec(2, -2, -1), IVec(-2, 0, 1)}

Rays == {[rayStart |-> o, rayDirection |-> d] : o \in Grid, d \in Directions}

Planes ==
    {[pos |-> IVec(0, 0, 0), normal |-> IVec(0, 0, 1)],
     [pos |-> IVec(0, 0, 1), normal |-> IVec(0, 0, -1)],
     [pos |-> IVec(1, 0, -1), normal |-> IVec(1, 1, 0)],
     [pos |-> IVec(0, 1, 0), normal |-> IVec(1, -1, 1)],
     [pos |-> IVec(0, 0, 0), normal |-> IVec(0, 0, 0)]}

PlaneInputs ==
    {[rayStart |-> r.rayStart, rayDirection |-> r.rayDirection,
      planePos |-> p.pos, planeNormal |-> p.normal] : r \in Rays, p \in Planes}

Triangles ==
    {<<IVec(-1, -1, 0), IVec(1, -1, 0), IVec(0, 1, 0)>>,
     <<IVec(-1, -1, 0), IVec(0, 1, 0), IVec(1, -1, 0)>>,
     <<IVec(1, 0, 0), IVec(0, 1, 0), IVec(0, 0, 1)>>,
     <<IVec(0, 0, 0), IVec(1, 0, 0), IVec(0, 1, 0)>>,
     <<IVec(0, 0, -1), IVec(0, 1, 1), IVec(0, -1, 1)>>,
     <<IVec(0, 0, 0), IVec(1, 0, 0), IVec(-1, 0, 0)>>,
     <<IVec(0, 0, 0), IVec(0, 0, 0), IVec(1, 0, 0)>>}

\* the centroid of a triangle
Centroid(t) ==
    VScale(VAdd(VAdd(t[1], t[2]), t[3]), Rat(1, 3))

\* the ray from k normals above the centroid, aimed at it along the negated normal
CentroidRay(t, k) ==
    [rayStart |-> VAdd(Centroid(t), VScale(TrianglePlaneNormal(t), Num(k))),
     rayDirection |-> VScale(TrianglePlaneNormal(t), Num(-1))]

TriangleInputs ==
    {[rayStart |-> r.rayStart, rayDirection |-> r.rayDirection, verticesArr |-> t] :
        r \in Rays, t \in Triangles}
    \cup
    {[rayStart |-> CentroidRay(t, k).rayStart,
      rayDirection |-> CentroidRay(t, k).rayDirection, verticesArr |-> t] :
        t \in Triangles, k \in 1 .. MaxCoord + 1}

UnitSquare == <<IVec(0, 0, 0), IVec(1, 0, 0), IVec(1, 1, 0), IVec(0, 1, 0)>>

Quads ==
    {UnitSquare,
     <<IVec(0, -1, -1), IVec(0, 1, -1), IVec(0, 1, 0), IVec(0, -1, 0)>>,
     <<IVec(1, 0, 0), IVec(0, 1, 0), IVec(0, 1, 1), IVec(1, 0, 1)>>,
     <<IVec(0, 0, 0), IVec(1, 0, 0), IVec(2, 1, 0), IVec(1, 1, 0)>>,
     <<IVec(-1, 0, 0), IVec(0, -1, 0), IVec(1, 0, 1), IVec(0, 1, 1)>>,
     <<IVec(0, 0, 0), IVec(1, 0, 0), IVec(1, 1, 0), IVec(-1, 1, 0)>>,
     <<IVec(0, 0, 0), IVec(0, 0, 0), IVec(1, 1, 0), IVec(0, 1, 0)>>}

\* the start of the rays aimed at the unit square's plane
SquareRayStart == <<Rat(1, 2), Rat(1, 2), Num(1)>>

\* the points (x, y, 0) the rays from SquareRayStart are aimed at
SquareTargets ==
    {<<Rat(x, 2), Rat(y, 2), Num(0)>> :
        x \in -2 * MaxCoord .. 2 * MaxCoord + 2, y \in -2 * MaxCoord .. 2 * MaxCoord + 2}

QuadInputs ==
    {[rayStart |-> r.rayStart, rayDirection |-> r.rayDirection, verticesArr |-> q] :
        r \in Rays, q \in Quads}
    \cup
    {[rayStart |-> SquareRayStart, rayDirection |-> VSub(t, SquareRayStart),
      verticesArr |-> UnitSquare] : t \in SquareTargets}

UnitBox == [min |-> IVec(0, 0, 0), max |-> IVec(1, 1, 1)]

Boxes ==
    {UnitBox,
     [min |-> IVec(-1, -1, -1), max |-> IVec(1, 1, 1)],
     [min |-> IVec(-1, 0, 0), max |-> IVec(1, 0, 1)],
     [min |-> IVec(0, 0, 0), max |-> IVec(0, 0, 0)]}

\* the two rays along +z through the middle of the unit box
BoxRayInFront == [origin |-> <<Rat(1, 2), Rat(1, 2), Num(-5)>>, direction |-> IVec(0, 0, 1)]
BoxRayBehind == [origin |-> <<Rat(1, 2), Rat(1, 2), Num(5)>>, direction |-> IVec(0, 0, 1)]

AABBInputs ==
    {[origin |-> r.rayStart, direction |-> r.rayDirection, box |-> b] :
        r \in Rays, b \in Boxes}
    \cup
    {[origin |-> r.origin, direction |-> r.direction, box |-> UnitBox] :
        r \in {BoxRayInFront, BoxRayBehind}}

\* projection matrices: the identity, mat4.perspective for fovy 90 degrees,
\* aspect 2, near 1, far 3 and for f = 2, aspect 1, near 1, far 2, and a
\* matrix that is not invertible
Projections ==
    {Mat4Identity,
     <<Rat(1, 2), Num(0), Num(0), Num(0), Num(0), Num(1), Num(0), Num(0),
       Num(0), Num(0), Num(-2), Num(-1), Num(0), Num(0), Num(-3), Num(0)>>,
     Mat4(<<2, 0, 0, 0, 0, 2, 0, 0, 0, 0, -3, -1, 0, 0, -4, 0>>),
     Mat4(<<1, 0, 0, 0, 0, 1, 0, 0, 0, 0, 0, 0, 0, 0, -1, 0>>)}

\* camera placements: at the origin, moved to (1,2,3), and turned a quarter
\* about the y axis at (0,1,-2); viewMatrixInverse is the camera's world matrix
Placements ==
    {[viewMatrixInverse |-> Mat4Identity, position |-> IVec(0, 0, 0)],
     [viewMatrixInverse |-> Mat4(<<1, 0, 0, 0, 0, 1, 0, 0, 0, 0, 1, 0, 1, 2, 3, 1>>),
      position |-> IVec(1, 2, 3)],
     [viewMatrixInverse |-> Mat4(<<0, 0, -1, 0, 0, 1, 0, 0, 1, 0, 0, 0, 0, 1, -2, 1>>),
      position |-> IVec(0, 1, -2)]}

Cameras ==
    {[projectionMatrix |-> p, viewMatrixInverse |-> c.viewMatrixInverse,
      position |-> c.position] : p \in Projections, c \in Placements}

\* pointer coordinates, in halves
MouseCoords ==
    {<<Rat(x, 2), Rat(y, 2)>> : x \in -2 * MaxCoord .. 2 * MaxCoord,
                                y \in -2 * MaxCoord .. 2 * MaxCoord}

\* the default ray length
DefaultRayScale == 999

RayScales == {Num(DefaultRayScale), Num(1), Rat(1, 2), Num(0), Num(-1), Num(-2)}

MouseInputs ==
    {[normMouseCoords |-> m, camera |-> c, rayScale |-> k] :
        m \in MouseCoords, c \in Cameras, k \in RayScales}

-----------------------------------------------------------------------------
(* One call of each routine on inputs drawn from the bounded sets *)

Done(f) == pc = "done" /\ fn = f

InitPlane ==
    /\ fn = "intersectRayWithPlane"
    /\ args \in PlaneInputs
    /\ pc = "call"
    /\ result = Null

CallPlane ==
    /\ pc = "call"
    /\ fn = "intersectRayWithPlane"
    /\ result' = intersectRayWithPlane(args.rayStart, args.rayDirection,
                                       args.planePos, args.planeNormal)
    /\ pc' = "done"
    /\ UNCHANGED <<fn, args>>

NextPlane == CallPlane

SpecPlane == InitPlane /\ [][NextPlane]_vars

InitTriangle ==
    /\ fn = "intersectRayWithTriangle"
    /\ args \in TriangleInputs
    /\ pc = "call"
    /\ result = Null

CallTriangle ==
    /\ pc = "call"
    /\ fn = "intersectRayWithTriangle"
    /\ result' = intersectRayWithTriangle(args.rayStart, args.rayDirection,
                                          args.verticesArr)
    /\ pc' = "done"
    /\ UNCHANGED <<fn, args>>

NextTriangle == CallTriangle

SpecTriangle == InitTriangle /\ [][NextTriangle]_vars

InitQuad ==
    /\ fn = "intersectRayWithQuad"
    /\ args \in QuadInputs
    /\ pc = "call"
    /\ result = Null

CallQuad ==
    /\ pc = "call"
    /\ fn = "intersectRayWithQuad"
    /\ result' = intersectRayWithQuad(args.rayStart, args.rayDirection,
                                      args.verticesArr)
    /\ pc' = "done"
    /\ UNCHANGED <<fn, args>>

NextQuad == CallQuad

SpecQuad == InitQuad /\ [][NextQuad]_vars

InitAABB ==
    /\ fn = "intersectRayWithAABB"
    /\ args \in AABBInputs
    /\ pc = "call"
    /\ result = Null

CallAABB ==
    /\ pc = "call"
    /\ fn = "intersectRayWithAABB"
    /\ result' = intersectRayWithAABB(args.origin, args.direction, args.box)
    /\ pc' = "done"
    /\ UNCHANGED <<fn, args>>

NextAABB == CallAABB

SpecAABB == InitAABB /\ [][NextAABB]_vars

InitMouse ==
    /\ fn = "projectMouseToWorldSpace"
    /\ args \in MouseInputs
    /\ pc = "call"
    /\ result = Null

CallMouse ==
    /\ pc = "call"
    /\ fn = "projectMouseToWorldSpace"
    /\ result' = projectMouseToWorldSpace(args.normMouseCoords, args.camera,
                                          args.rayScale)
    /\ pc' = "done"
    /\ UNCHANGED <<fn, args>>

NextMouse == CallMouse

SpecMouse == InitMouse /\ [][NextMouse]_vars

\* any one of the routines is called
Init == InitMouse \/ InitPlane \/ InitTriangle \/ InitQuad \/ InitAABB

Next == CallMouse \/ CallPlane \/ CallTriangle \/ CallQuad \/ CallAABB

Spec == Init /\ [][Next]_vars

-----------------------------------------------------------------------------
(* Vocabulary of the properties *)

\* the integer a number with denominator 1 stands for
IntOf(a) == a.sg * a.num

IntDot(a, b) ==
    IntOf(a[1]) * IntOf(b[1]) + IntOf(a[2]) * IntOf(b[2]) + IntOf(a[3]) * IntOf(b[3])

IntSub(a, b) ==
    <<Num(IntOf(a[1]) - IntOf(b[1])), Num(IntOf(a[2]) - IntOf(b[2])),
      Num(IntOf(a[3]) - IntOf(b[3]))>>

\* the same number: equal as numbers, or both NaN
SameNum(a, b) == NumEq(a, b) \/ (IsNaN(a) /\ IsNaN(b))

SameVec(a, b) == \A i \in 1 .. 3 : SameNum(a[i], b[i])

\* the same result: null twice, or the same time and point
SameHit(r, q) ==
    \/ r = Null /\ q = Null
    \/ /\ r # Null
       /\ q # Null
       /\ SameNum(r[1], q[1])
       /\ SameVec(r[2], q[2])

NonZero(a) == IsFinite(a) /\ ~IsZero(a)

FiniteVec(a) == \A i \in 1 .. 3 : IsFinite(a[i])

\* the coordinates (s, t) of p in the frame (origin; a, b): p = origin + s*a + t*b
\* for a point p of the plane through origin spanned by a and b
FrameDet(a, b) == Sub(Mul(Dot(a, a), Dot(b, b)), Mul(Dot(a, b), Dot(a, b)))

FrameS(p, origin, a, b) ==
    LET q == VSub(p, origin)
    IN  Div(Sub(Mul(Dot(b, b), Dot(q, a)), Mul(Dot(a, b), Dot(q, b))), FrameDet(a, b))

FrameT(p, origin, a, b) ==
    LET q == VSub(p, origin)
    IN  Div(Sub(Mul(Dot(a, a), Dot(q, b)), Mul(Dot(a, b), Dot(q, a))), FrameDet(a, b))

-----------------------------------------------------------------------------
(* intersectRayWithPlane: properties *)

PlaneWp == IntDot(IntSub(args.planePos, args.rayStart), args.planeNormal)
PlaneVp == IntDot(args.rayDirection, args.planeNormal)

\* wp / vp as a fraction of integers (vp # 0)
PlaneTime == Rat(IF PlaneVp < 0 THEN -PlaneWp ELSE PlaneWp, Abs(PlaneVp))

(* C1: for dot(D,N) # 0 and time = dot(P-O,N)/dot(D,N): if time >= 0 the    *)
(* result is (time, Q) with Q = O + D*time and Q on the plane               *)
(* (dot(Q-P,N) = 0); if time < 0 the result is null.                        *)
C1_PlaneHitConsistent ==
    (Done("intersectRayWithPlane") /\ PlaneVp # 0) =>
        IF PlaneTime.sg = 1 \/ PlaneTime.num = 0
        THEN /\ result # Null
             /\ NumEq(result[1], PlaneTime)
             /\ SameVec(result[2],
                        VAdd(args.rayStart, VScale(args.rayDirection, PlaneTime)))
             /\ FiniteVec(result[2])
             /\ IsZero(Dot(VSub(result[2], args.planePos), args.planeNormal))
        ELSE result = Null

\* a hit at a positive, fractional time away from the ray start
C1_Witness ==
    /\ Done("intersectRayWithPlane")
    /\ PlaneVp # 0
    /\ result # Null
    /\ result[1].den > 1
    /\ ~SameVec(result[2], args.rayStart)

(* C6: a ray parallel to the plane (dot(D,N) = 0) never produces a hit:     *)
(* intersectRayWithPlane returns null, and intersectRayWithTriangle returns *)
(* null for a triangle whose plane is parallel to the ray direction.        *)
C6_ParallelNeverHits ==
    /\ (Done("intersectRayWithPlane")
          /\ IsZero(Dot(args.rayDirection, args.planeNormal)))
       => result = Null
    /\ (Done("intersectRayWithTriangle")
          /\ IsZero(Dot(args.rayDirection, TrianglePlaneNormal(args.verticesArr))))
       => result = Null

-----------------------------------------------------------------------------
(* intersectRayWithTriangle: properties *)

TriNormal == TrianglePlaneNormal(args.verticesArr)

TriNonDegenerate == \E i \in 1 .. 3 : NonZero(TriNormal[i])

TriNotParallel == NonZero(Dot(args.rayDirection, TriNormal))

TriPlaneHit ==
    intersectRayWithPlane(args.rayStart, args.rayDirection, args.verticesArr[1], TriNormal)

\* p, a point of the triangle's plane, is inside or on the boundary of the
\* triangle: its barycentric coordinates are all non-negative
InTriangle(p, t) ==
    LET a == VSub(t[2], t[1])
        b == VSub(t[3], t[1])
        u == FrameS(p, t[1], a, b)
        v == FrameT(p, t[1], a, b)
    IN  Ge(u, PosZero) /\ Ge(v, PosZero) /\ Le(Add(u, v), Num(1))

StrictlyInTriangle(p, t) ==
    LET a == VSub(t[2], t[1])
        b == VSub(t[3], t[1])
        u == FrameS(p, t[1], a, b)
        v == FrameT(p, t[1], a, b)
    IN  Gt(u, PosZero) /\ Gt(v, PosZero) /\ Lt(Add(u, v), Num(1))

IsCentroidRay ==
    \E k \in 1 .. MaxCoord + 1 :
        /\ args.rayStart = CentroidRay(args.verticesArr, k).rayStart
        /\ args.rayDirection = CentroidRay(args.verticesArr, k).rayDirection

(* C2: for a non-degenerate triangle and a ray not parallel to its plane,   *)
(* the result is the plane intersection's (time, point), unchanged, when    *)
(* the plane hit exists and its point is inside or on the boundary of the   *)
(* triangle, and null otherwise; a ray from off the plane aimed at the      *)
(* centroid along the negated normal hits, at the centroid.                 *)
C2_TriangleHitIffInside ==
    (Done("intersectRayWithTriangle") /\ TriNonDegenerate /\ TriNotParallel) =>
        /\ IF TriPlaneHit # Null /\ InTriangle(TriPlaneHit[2], args.verticesArr)
           THEN result = TriPlaneHit
           ELSE result = Null
        /\ IsCentroidRay =>
              /\ result # Null
              /\ SameVec(result[2], Centroid(args.verticesArr))

\* a hit strictly inside a triangle, at a positive time
C2_Witness ==
    /\ Done("intersectRayWithTriangle")
    /\ TriNonDegenerate
    /\ TriNotParallel
    /\ result # Null
    /\ Gt(result[1], PosZero)
    /\ StrictlyInTriangle(result[2], args.verticesArr)
    /\ ~IsCentroidRay

Reversed(t) == <<t[1], t[3], t[2]>>

(* C9: for every ray and every triangle (v0,v1,v2), the reversed vertex     *)
(* order (v0,v2,v1) negates the plane normal and gives the same result:     *)
(* null in both cases, or the same time and point in both cases.            *)
C9_WindingAgnostic ==
    Done("intersectRayWithTriangle") =>
        /\ SameVec(TrianglePlaneNormal(Reversed(args.verticesArr)),
                   VScale(TriNormal, Num(-1)))
        /\ SameHit(result,
                   intersectRayWithTriangle(args.rayStart, args.rayDirection,
                                            Reversed(args.verticesArr)))

-----------------------------------------------------------------------------
(* intersectRayWithQuad: properties *)

QuadHit == QuadPlaneHit(args.rayStart, args.rayDirection, args.verticesArr)

\* the ray meets the quad's plane at a finite time >= 0
QuadHitFinite == QuadHit # Null /\ IsFinite(QuadHit[1])

\* v3 = v0 + v2 - v1, and the vertices span a plane
QuadIsParallelogram ==
    LET v == args.verticesArr
    IN  /\ SameVec(v[4], VSub(VAdd(v[1], v[3]), v[2]))
        /\ \E i \in 1 .. 3 : NonZero(QuadPlaneNormal(v)[i])

\* a parallelogram whose adjacent edges v1 - v0 and v2 - v1 are perpendicular
QuadIsRectangle ==
    LET v == args.verticesArr
    IN  QuadIsParallelogram /\ IsZero(Dot(VSub(v[2], v[1]), VSub(v[3], v[2])))

\* p, a point of the quad's plane, is inside or on the boundary of the
\* parallelogram v0, v1, v2, v3: p = v0 + s*(v1-v0) + t*(v3-v0), s, t in [0,1]
InParallelogram(p, v) ==
    LET a == VSub(v[2], v[1])
        b == VSub(v[4], v[1])
        s == FrameS(p, v[1], a, b)
        t == FrameT(p, v[1], a, b)
    IN  Ge(s, PosZero) /\ Le(s, Num(1)) /\ Ge(t, PosZero) /\ Le(t, Num(1))

IsSquareRay ==
    /\ args.verticesArr = UnitSquare
    /\ args.rayStart = SquareRayStart
    /\ VAdd(SquareRayStart, args.rayDirection) \in SquareTargets

SquareTarget == VAdd(SquareRayStart, args.rayDirection)

InUnitInterval(x) == Ge(x, PosZero) /\ Le(x, Num(1))

(* C4: on the unit square, a ray from (0.5,0.5,1) with direction T - start  *)
(* for T = (x,y,0) hits exactly when 0 <= x <= 1 and 0 <= y <= 1, at time 1 *)
(* and point T; toward (0.5,0.5,0) it hits at time 1, point (0.5,0.5,0),    *)
(* and toward (1.5,0.5,0) the result is null.                               *)
C4_UnitSquareHits ==
    (Done("intersectRayWithQuad") /\ IsSquareRay) =>
        /\ IF InUnitInterval(SquareTarget[1]) /\ InUnitInterval(SquareTarget[2])
           THEN /\ result # Null
                /\ NumEq(result[1], Num(1))
                /\ SameVec(result[2], SquareTarget)
           ELSE result = Null
        /\ SquareTarget = <<Rat(1, 2), Rat(1, 2), Num(0)>> =>
              result = <<Num(1), <<Rat(1, 2), Rat(1, 2), Num(0)>>>>
        /\ SquareTarget = <<Rat(3, 2), Rat(1, 2), Num(0)>> => result = Null

\* the ray toward the middle of the unit square has hit
C4_Witness ==
    /\ Done("intersectRayWithQuad")
    /\ IsSquareRay
    /\ SquareTarget = <<Rat(1, 2), Rat(1, 2), Num(0)>>
    /\ result # Null

(* C7, as stated: for every planar parallelogram (v3 = v0 + v2 - v1, not    *)
(* necessarily a rectangle) and every ray with a plane hit at time >= 0,    *)
(* the result is the plane intersection exactly when the hit point is       *)
(* inside or on the boundary of the parallelogram, and null otherwise.      *)
C7_ParallelogramExact ==
    (Done("intersectRayWithQuad") /\ QuadIsParallelogram /\ QuadHitFinite) =>
        IF InParallelogram(QuadHit[2], args.verticesArr)
        THEN result = QuadHit
        ELSE result = Null

(* C7, amended: for every planar rectangle (a parallelogram whose edges     *)
(* v1 - v0 and v2 - v1 are perpendicular) and every ray with a plane hit at *)
(* a finite time >= 0, the result is the plane intersection exactly when    *)
(* the hit point is inside or on the boundary of the rectangle, and null    *)
(* otherwise.                                                               *)
C7_RectangleExact ==
    (Done("intersectRayWithQuad") /\ QuadIsRectangle /\ QuadHitFinite) =>
        IF InParallelogram(QuadHit[2], args.verticesArr)
        THEN result = QuadHit
        ELSE result = Null

\* a hit inside a rectangle other than the unit square, at a fractional time
C7_Witness ==
    /\ Done("intersectRayWithQuad")
    /\ QuadIsRectangle
    /\ args.verticesArr # UnitSquare
    /\ QuadHitFinite
    /\ result # Null
    /\ result[1].den > 1
    /\ InParallelogram(result[2], args.verticesArr)

\* fourth vertices to compare a call against
AltVertices ==
    {IVec(0, 0, 0), IVec(MaxCoord, MaxCoord + 1, -MaxCoord),
     VSub(VAdd(args.verticesArr[1], args.verticesArr[3]), args.verticesArr[2])}

WithFourth(v, w) == <<v[1], v[2], v[3], w>>

\* the outcome of the second parametric test, where the call reaches it
QuadSecondOutcome(rayStart, rayDirection, verticesArr) ==
    LET hit == QuadPlaneHit(rayStart, rayDirection, verticesArr)
    IN  IF hit = Null \/ QuadFirstOutside(hit[2], verticesArr)
        THEN "not reached"
        ELSE IF QuadSecondOutside(hit[2], verticesArr) THEN "outside" ELSE "inside"

(* C10, as stated: the fourth vertex is used for the second parametric      *)
(* test: the outcome of the second parametric test depends on vertex 3,     *)
(* so that a call that reaches the second test has a different outcome of   *)
(* it for some other fourth vertex.                                         *)
C10_SecondTestDependsOnFourth ==
    (Done("intersectRayWithQuad")
        /\ QuadSecondOutcome(args.rayStart, args.rayDirection, args.verticesArr)
              # "not reached") =>
        \E w \in Grid :
            QuadSecondOutcome(args.rayStart, args.rayDirection,
                              WithFourth(args.verticesArr, w))
                # QuadSecondOutcome(args.rayStart, args.rayDirection, args.verticesArr)

(* C10, amended: the first three vertices alone determine the plane         *)
(* (normal = cross(v2-v1, v0-v1), plane point v0), and the fourth vertex is *)
(* used for nothing: the plane hit, the first and the second parametric     *)
(* test (on edge v2 - v1) and the result are the same for every fourth      *)
(* vertex.                                                                  *)
C10_FourthVertexUnused ==
    Done("intersectRayWithQuad") =>
        LET v == args.verticesArr
            planeHit == intersectRayWithPlane(args.rayStart, args.rayDirection, v[1],
                                              Cross(VSub(v[3], v[2]), VSub(v[1], v[2])))
            second == QuadSecondOutcome(args.rayStart, args.rayDirection, v)
        IN  /\ result # Null => result = planeHit
            /\ second = "not reached" <=>
                  (planeHit = Null \/ QuadFirstOutside(planeHit[2], v))
            /\ \A w \in AltVertices :
                  /\ QuadSecondOutcome(args.rayStart, args.rayDirection, WithFourth(v, w))
                        = second
                  /\ intersectRayWithQuad(args.rayStart, args.rayDirection,
                                          WithFourth(v, w)) = result

\* a call rejected by the second parametric test alone
C10_Witness ==
    /\ Done("intersectRayWithQuad")
    /\ QuadHitFinite
    /\ QuadSecondOutcome(args.rayStart, args.rayDirection, args.verticesArr) = "outside"
    /\ result = Null

-----------------------------------------------------------------------------
(* intersectRayWithAABB: properties *)

Axes == 1 .. 3

\* the times at which the ray's line crosses the two planes of slab i
SlabT1(i) == Div(Sub(args.box.min[i], args.origin[i]), args.direction[i])
SlabT2(i) == Div(Sub(args.box.max[i], args.origin[i]), args.direction[i])

\* the earlier and the later of the two (direction[i] # 0)
SlabEntry(i) == IF Le(SlabT1(i), SlabT2(i)) THEN SlabT1(i) ELSE SlabT2(i)
SlabExit(i) == IF Le(SlabT1(i), SlabT2(i)) THEN SlabT2(i) ELSE SlabT1(i)

\* the latest entry and the earliest exit over the axes in A
LatestEntry(A) == CHOOSE t \in {SlabEntry(i) : i \in A} : \A j \in A : Ge(t, SlabEntry(j))
EarliestExit(A) == CHOOSE t \in {SlabExit(i) : i \in A} : \A j \in A : Le(t, SlabExit(j))

DirectionNonZero == \A i \in Axes : NonZero(args.direction[i])
ZeroAxes == {i \in Axes : IsZero(args.direction[i])}

BoxOrdered == \A i \in Axes : Le(args.box.min[i], args.box.max[i])

OriginInBox ==
    \A i \in Axes : Le(args.box.min[i], args.origin[i]) /\ Le(args.origin[i], args.box.max[i])

\* the point origin + t * direction is in the box
PointInBox(t) ==
    \A i \in Axes :
        LET x == Add(args.origin[i], Mul(args.direction[i], t))
        IN  Le(args.box.min[i], x) /\ Le(x, args.box.max[i])

\* some point of the ray (t >= 0) is in the box: if any is, the first one is
\* the origin or lies on the plane of a box face
RayMeetsBox ==
    \E t \in {PosZero} \cup {SlabT1(i) : i \in Axes \ ZeroAxes}
                       \cup {SlabT2(i) : i \in Axes \ ZeroAxes} :
        Ge(t, PosZero) /\ PointInBox(t)

(* C3: for a box with min[i] <= max[i] and a ray whose direction components *)
(* are all non-zero, with tmin the latest slab entry and tmax the earliest  *)
(* slab exit, the result is null exactly when tmax < 0 or tmin > tmax and   *)
(* is tmin otherwise; a ray whose origin is inside the box is not a no-hit  *)
(* and returns a time <= 0.  For the box (0,0,0)-(1,1,1) and direction      *)
(* (0,0,1), the origin (0.5,0.5,-5) returns 5 and (0.5,0.5,5) returns null. *)
C3_SlabResult ==
    Done("intersectRayWithAABB") =>
        /\ (BoxOrdered /\ DirectionNonZero) =>
              LET tmin == LatestEntry(Axes)
                  tmax == EarliestExit(Axes)
              IN  /\ IF Lt(tmax, PosZero) \/ Gt(tmin, tmax)
                     THEN result = Null
                     ELSE result # Null /\ NumEq(result[1], tmin)
                  /\ result = Null <=> ~RayMeetsBox
                  /\ OriginInBox => (result # Null /\ Le(result[1], PosZero))
        /\ (args.box = UnitBox /\ args.origin = BoxRayInFront.origin
              /\ args.direction = BoxRayInFront.direction) => result = <<Num(5)>>
        /\ (args.box = UnitBox /\ args.origin = BoxRayBehind.origin
              /\ args.direction = BoxRayBehind.direction) => result = Null

\* a ray of non-zero direction components from strictly inside a box: a
\* negative entry time
C3_Witness ==
    /\ Done("intersectRayWithAABB")
    /\ DirectionNonZero
    /\ \A i \in Axes : Lt(args.box.min[i], args.origin[i]) /\ Lt(args.origin[i], args.box.max[i])
    /\ result # Null
    /\ Lt(result[1], PosZero)

(* C8: for a box with min[i] <= max[i] and a ray with one or more direction *)
(* components equal to 0 (the origin possibly on the plane of a box face of *)
(* that axis), each division of such an axis yields +Infinity or -Infinity, *)
(* and the result is null exactly when the ray (t >= 0) does not meet the   *)
(* box and is otherwise the finite entry time tmin; it is never NaN.        *)
C8_ZeroComponentClassified ==
    (Done("intersectRayWithAABB") /\ BoxOrdered /\ ZeroAxes # {}) =>
        /\ \A i \in ZeroAxes : IsInf(SlabT1(i)) /\ IsInf(SlabT2(i))
        /\ result = Null <=> ~RayMeetsBox
        /\ result # Null => IsFinite(result[1])

-----------------------------------------------------------------------------
(* projectMouseToWorldSpace: properties *)

ProjectionInvertible == NonZero(Mat4Det(args.camera.projectionMatrix))

\* a number without a square root part
SurdRational(a) == IsZero(a.coef) /\ IsFinite(a.rat)

\* the square of the magnitude of a vector of multiples of sqrt(rad)
SurdMagnitudeSquared(v) ==
    Add3(Mul(Mul(v[1].coef, v[1].coef), v[1].rad),
         Mul(Mul(v[2].coef, v[2].coef), v[2].rad),
         Mul(Mul(v[3].coef, v[3].coef), v[3].rad))

\* v is u * k for the unit vector u of direction w: v[i] = w[i] * k / sqrt(w.w)
IsUnitTimes(v, w, k) ==
    \A i \in 1 .. 3 :
        /\ IsZero(v[i].rat)
        /\ IsZero(v[i].coef) \/ NumEq(v[i].rad, Dot(w, w))
        /\ NumEq(Mul(v[i].coef, Dot(w, w)), Mul(w[i], k))

MouseRayShape ==
    LET w == MouseWorldDirection(args.normMouseCoords, args.camera)
    IN  /\ \A i \in 1 .. 3 :
              /\ SurdRational(result.rayStart[i])
              /\ NumEq(result.rayStart[i].rat, args.camera.position[i])
        /\ IsUnitTimes(SVSub(result.rayEnd, result.rayStart), w, args.rayScale)
        /\ IsUnitTimes(result.rayDirection, w, args.rayScale)

MouseMagnitudeIsRayScale ==
    /\ \A i \in 1 .. 3 : IsZero(result.rayDirection[i].rat)
    /\ Ge(args.rayScale, PosZero)
    /\ NumEq(SurdMagnitudeSquared(result.rayDirection),
             Mul(args.rayScale, args.rayScale))

(* C5, as stated: for every pointer coordinate, every camera with an        *)
(* invertible projection matrix and every rayScale, rayStart is the camera  *)
(* position, rayEnd = rayStart + u*rayScale for the normalized world-space  *)
(* direction u, rayDirection = rayEnd - rayStart, and the magnitude of      *)
(* rayDirection equals rayScale.                                            *)
C5_MagnitudeIsRayScale ==
    (Done("projectMouseToWorldSpace") /\ ProjectionInvertible) =>
        MouseRayShape /\ MouseMagnitudeIsRayScale

(* C5, amended: for every pointer coordinate, every camera with an          *)
(* invertible projection matrix and every rayScale, rayStart is the camera  *)
(* position, rayEnd = rayStart + u*rayScale for the normalized world-space  *)
(* direction u, rayDirection = rayEnd - rayStart, and the magnitude of      *)
(* rayDirection equals the absolute value of rayScale: it equals rayScale   *)
(* for rayScale >= 0.                                                       *)
C5_MagnitudeIsAbsRayScale ==
    (Done("projectMouseToWorldSpace") /\ ProjectionInvertible) =>
        /\ MouseRayShape
        /\ NumEq(SurdMagnitudeSquared(result.rayDirection),
                 Mul(args.rayScale, args.rayScale))
        /\ Ge(args.rayScale, PosZero) => MouseMagnitudeIsRayScale

\* a ray of the default length through an off-centre pointer position, its
\* unit direction irrational
C5_Witness ==
    /\ Done("projectMouseToWorldSpace")
    /\ ProjectionInvertible
    /\ args.camera.projectionMatrix # Mat4Identity
    /\ args.rayScale = Num(DefaultRayScale)
    /\ NonZero(args.normMouseCoords[1])
    /\ result.rayDirection[1].rad = Num(3)
    /\ MouseMagnitudeIsRayScale

=============================================================================
